---- MODULE Spec2Model ----
(***************************************************************************)
(* Model of the byte-stream lexer of src/src/lib.rs.                       *)
(*                                                                         *)
(* The program state is the Lexer struct (input, max_position, position,   *)
(* col, row).  The only operation is Lexer::next, which returns one Token  *)
(* per call.  Bytes are naturals 0..255, strings are sequences of Unicode  *)
(* code points, and a Rust index i is the TLA+ index i + 1.                *)
(*                                                                         *)
(* Observation variables (not fields of the Lexer):                        *)
(*   tok     the Token returned by the last call (NoToken before any call) *)
(*   before  position, row, col and tok as they were before the last call  *)
(*   tokens  the Tokens returned so far, up to and including the first     *)
(*           Null, and at most Len(input) + MaxExtra of them (a scan that  *)
(*           consumes a byte per call returns at most Len(input) + 1)      *)
(*   odd     whether the number of calls made so far is odd                *)
(*   args    the arguments Lexer::from_args built the Lexer from; empty    *)
(*           when it was built by Lexer::new                               *)
(***************************************************************************)
EXTENDS Naturals, Integers, Sequences, FiniteSets, TLC

VARIABLES input, max_position, position, col, row, tok, before, tokens, odd,
          args

vars ==
    <<input, max_position, position, col, row, tok, before, tokens, odd,
      args>>

\* ------------------------------------------------------------------ bounds
MaxLen == 4

MaxExtra == 2

MaxArgs == 3

MaxArgLen == 1

\* ------------------------------------------------------------- input bytes
\* One or two bytes of every class the dispatch of Lexer::next separates:
\* NUL, LF, FF, space, '.', '1', '_', 'a', and the non-ASCII byte 0xC3.
Alphabet == {0, 10, 12, 32, 46, 49, 95, 97, 195}

\* "1 + 2 * 3 asdsda\n ds", the buffer of the repository's test.
Scenario ==
    <<49, 32, 43, 32, 50, 32, 42, 32, 51, 32,
      97, 115, 100, 115, 100, 97, 10, 32, 100, 115>>

\* "3.", "3.5" and "abc123".
Examples == {<<51, 46>>, <<51, 46, 53>>, <<97, 98, 99, 49, 50, 51>>}

\* " \t\r\na", "\r\n\n1", "\t\x0c", "==", "a=b" and "1+1".
MoreExamples ==
    {<<32, 9, 13, 10, 97>>, <<13, 10, 10, 49>>, <<9, 12>>, <<61, 61>>,
     <<97, 61, 98>>, <<49, 43, 49>>}

Buffers ==
    UNION {[1..n -> Alphabet] : n \in 0..MaxLen}
        \cup {Scenario} \cup Examples \cup MoreExamples

\* Command-line arguments are strings (sequences of code points), here of
\* 'a' and U+00E9, whose UTF-8 encoding takes two bytes.
ArgAlphabet == {97, 233}

ArgStrings == UNION {[1..n -> ArgAlphabet] : n \in 0..MaxArgLen}

ArgLists == UNION {[1..n -> ArgStrings] : n \in 0..MaxArgs}

\* ------------------------------------------------- u8 classification (std)
is_ascii_alphabetic(ch) == (ch >= 65 /\ ch <= 90) \/ (ch >= 97 /\ ch <= 122)

is_ascii_digit(ch) == ch >= 48 /\ ch <= 57

is_ascii_punctuation(ch) ==
    \/ (ch >= 33 /\ ch <= 47)
    \/ (ch >= 58 /\ ch <= 64)
    \/ (ch >= 91 /\ ch <= 96)
    \/ (ch >= 123 /\ ch <= 126)

\* The mutant forgets the newline.
is_ascii_whitespace_noLF(ch) == ch \in {32, 9, 12, 13}

\* U+0020 SPACE, U+0009 TAB, U+000A LF, U+000C FORM FEED, U+000D CR.
is_ascii_whitespace(ch) == ch \in {32, 9, 10, 12, 13}

\* ------------------------------------------ String::from_utf8_lossy (std)
IsCont(b) == b >= 128 /\ b <= 191

\* safe_get of the decoder: the byte at 1-based index i, 0 past the end.
SafeGet(bytes, i) == IF i <= Len(bytes) THEN bytes[i] ELSE 0

\* The first character of a non-empty byte string: its code point cp and the
\* number n of bytes it takes.  A maximal ill-formed prefix decodes to
\* U+FFFD (65533).
Utf8First(bytes) ==
    LET b1 == bytes[1]
        b2 == SafeGet(bytes, 2)
        b3 == SafeGet(bytes, 3)
        b4 == SafeGet(bytes, 4)
        bad(n) == [cp |-> 65533, n |-> n]
    IN  IF b1 < 128 THEN [cp |-> b1, n |-> 1]
        ELSE IF b1 >= 194 /\ b1 <= 223 THEN
            IF IsCont(b2)
            THEN [cp |-> (b1 - 192) * 64 + (b2 - 128), n |-> 2]
            ELSE bad(1)
        ELSE IF b1 >= 224 /\ b1 <= 239 THEN
            IF ~ ( \/ (b1 = 224 /\ b2 >= 160 /\ b2 <= 191)
                   \/ (b1 >= 225 /\ b1 <= 236 /\ IsCont(b2))
                   \/ (b1 = 237 /\ b2 >= 128 /\ b2 <= 159)
                   \/ (b1 >= 238 /\ IsCont(b2)) )
            THEN bad(1)
            ELSE IF ~ IsCont(b3) THEN bad(2)
            ELSE [cp |-> (b1 - 224) * 4096 + (b2 - 128) * 64 + (b3 - 128),
                  n |-> 3]
        ELSE IF b1 >= 240 /\ b1 <= 244 THEN
            IF ~ ( \/ (b1 = 240 /\ b2 >= 144 /\ b2 <= 191)
                   \/ (b1 >= 241 /\ b1 <= 243 /\ IsCont(b2))
                   \/ (b1 = 244 /\ b2 >= 128 /\ b2 <= 143) )
            THEN bad(1)
            ELSE IF ~ IsCont(b3) THEN bad(2)
            ELSE IF ~ IsCont(b4) THEN bad(3)
            ELSE [cp |-> (b1 - 240) * 262144 + (b2 - 128) * 4096
                          + (b3 - 128) * 64 + (b4 - 128),
                  n |-> 4]
        ELSE bad(1)

RECURSIVE Utf8Lossy(_)
Utf8Lossy(bytes) ==
    IF bytes = <<>> THEN <<>>
    ELSE LET f == Utf8First(bytes)
         IN  <<f.cp>> \o Utf8Lossy(SubSeq(bytes, f.n + 1, Len(bytes)))

\* --------------------------------------------------------------- Token
Token_new(kind, value, loc) == [kind |-> kind, value |-> value, loc |-> loc]

Token_invalid(value, loc) == Token_new("Invalid", value, loc)

Token_null(loc) == Token_new("Null", <<>>, loc)

\* No call has been made yet.
NoToken == [kind |-> "None", value |-> <<>>, loc |-> <<0, 0>>]

\* --------------------------------------------------------------- Lexer
\* The Lexer struct as a record; the operators below take it as self.
Lexer_new(bytes) ==
    [input |-> bytes, max_position |-> Len(bytes),
     position |-> 0, col |-> 1, row |-> 1]

\* String::into_bytes: the UTF-8 encoding of a string.
RECURSIVE into_bytes(_)
into_bytes(str) ==
    IF str = <<>> THEN <<>>
    ELSE LET cp == str[1]
             enc == IF cp < 128 THEN <<cp>>
                    ELSE IF cp < 2048
                    THEN <<192 + (cp \div 64), 128 + (cp % 64)>>
                    ELSE IF cp < 65536
                    THEN <<224 + (cp \div 4096), 128 + ((cp \div 64) % 64),
                           128 + (cp % 64)>>
                    ELSE <<240 + (cp \div 262144),
                           128 + ((cp \div 4096) % 64),
                           128 + ((cp \div 64) % 64), 128 + (cp % 64)>>
         IN  enc \o into_bytes(Tail(str))

\* The mutant joins without the space.
reduce_step_noSpace(acc, a) == acc \o a

\* The closure of the reduce: format!("{} {}", acc, a).
reduce_step(acc, a) == acc \o <<32>> \o a

\* Iterator::reduce from its first item on: a left fold.
RECURSIVE reduce_from(_, _)
reduce_from(acc, rest) ==
    IF rest = <<>> THEN acc
    ELSE reduce_from(reduce_step(acc, rest[1]), Tail(rest))

from_args(as) ==
    IF as # <<>>
    THEN Lexer_new(into_bytes(reduce_from(as[1], Tail(as))))
    ELSE Lexer_new(<<>>)

\* The mutant stops one byte early.
has_next_offByOne(self) == self.position + 1 < self.max_position

has_next(self) == self.position < self.max_position

current_byte(self) ==
    IF has_next(self) THEN self.input[self.position + 1] ELSE 0

peek(self, offset) ==
    LET index == self.position + offset
    IN  IF index < self.max_position THEN self.input[index + 1] ELSE 0

next_byte(self) == peek(self, 1)

advance_char(self) ==
    [self EXCEPT !.position = self.position + 1, !.col = self.col + 1]

\* The mutant slices from one byte too far.
slice_string_skipFirst(self, start, stop) ==
    Utf8Lossy(SubSeq(self.input, start + 2, stop))

\* &self.input[start..stop], decoded lossily.
slice_string(self, start, stop) ==
    Utf8Lossy(SubSeq(self.input, start + 1, stop))

\* A method that returns a Token and mutates the Lexer yields both.
Result(self, t) == [self |-> self, tok |-> t]

token(self, kind, start) ==
    Result(self, Token_new(kind, slice_string(self, start, self.position),
                           <<self.row, self.col>>))

\* The mutant leaves the cursor right after the invalid byte.
invalid_noJump(self, start, stop) ==
    LET value == slice_string(self, start, stop)
        s1    == [self EXCEPT !.position = stop]
    IN  Result(s1, Token_invalid(value, <<s1.row, s1.col>>))

\* The mutant jumps one past the end.
invalid_pastEnd(self, start, stop) ==
    LET value == slice_string(self, start, stop)
        s1    == [self EXCEPT !.position = self.max_position + 1]
    IN  Result(s1, Token_invalid(value, <<s1.row, s1.col>>))

invalid(self, start, stop) ==
    LET value == slice_string(self, start, stop)
        s1    == [self EXCEPT !.position = self.max_position]
    IN  Result(s1, Token_invalid(value, <<s1.row, s1.col>>))

null(self) == Token_null(<<self.row, self.col>>)

\* The mutant counts a carriage return as a line too.
RECURSIVE whitespace_loop_crIsLine(_)
whitespace_loop_crIsLine(self) ==
    IF ~ has_next(self) THEN self
    ELSE LET ch == current_byte(self)
         IN  IF ch \in {32, 9}
             THEN whitespace_loop_crIsLine(advance_char(self))
             ELSE IF ch \in {10, 13}
             THEN whitespace_loop_crIsLine(
                      advance_char([self EXCEPT !.row = self.row + 1]))
             ELSE self

\* The loop of Lexer::whitespace: the Lexer when the loop is left.
RECURSIVE whitespace_loop(_)
whitespace_loop(self) ==
    IF ~ has_next(self) THEN self
    ELSE LET ch == current_byte(self)
         IN  IF ch \in {32, 9, 13} THEN whitespace_loop(advance_char(self))
             ELSE IF ch = 10
             THEN whitespace_loop(
                      advance_char([self EXCEPT !.row = self.row + 1]))
             ELSE self

\* The mutant takes the loc where the token starts.
whitespace_locAtStart(self) ==
    LET start == self.position
        s1    == whitespace_loop(self)
        value == slice_string(s1, start, s1.position)
    IN  Result(s1, Token_new("Whitespace", value, <<self.row, self.col>>))

whitespace(self) ==
    LET start == self.position
        s1    == whitespace_loop(self)
        value == slice_string(s1, start, s1.position)
    IN  Result(s1, Token_new("Whitespace", value, <<s1.row, s1.col>>))

\* The mutant takes every '.' without looking at the byte after it.
RECURSIVE number_loop_noLookahead(_, _)
number_loop_noLookahead(self, kind) ==
    LET ch == current_byte(self)
        s1 == [self EXCEPT !.position = self.position + 1]
    IN  IF is_ascii_digit(ch) THEN number_loop_noLookahead(s1, kind)
        ELSE IF ch = 46 THEN number_loop_noLookahead(s1, "Float")
        ELSE [self |-> self, kind |-> kind]

\* The mutant advances with advance_char.
RECURSIVE number_loop_advanceChar(_, _)
number_loop_advanceChar(self, kind) ==
    LET ch == current_byte(self)
    IN  IF is_ascii_digit(ch)
        THEN number_loop_advanceChar(advance_char(self), kind)
        ELSE IF ch = 46 /\ is_ascii_digit(next_byte(self))
        THEN number_loop_advanceChar(advance_char(self), "Float")
        ELSE [self |-> self, kind |-> kind]

\* The loop of Lexer::number: the Lexer and the kind when the loop is left.
RECURSIVE number_loop(_, _)
number_loop(self, kind) ==
    LET ch == current_byte(self)
        s1 == [self EXCEPT !.position = self.position + 1]
    IN  IF is_ascii_digit(ch) THEN number_loop(s1, kind)
        ELSE IF ch = 46 /\ is_ascii_digit(next_byte(self))
        THEN number_loop(s1, "Float")
        ELSE [self |-> self, kind |-> kind]

number(self) ==
    LET start == self.position
        r     == number_loop(self, "Int")
    IN  token(r.self, r.kind, start)

\* The mutant also takes digits.
RECURSIVE identifier_loop_alnum(_)
identifier_loop_alnum(self) ==
    LET ch == current_byte(self)
    IN  IF ~ (is_ascii_alphabetic(ch) \/ is_ascii_digit(ch) \/ ch = 95)
        THEN self
        ELSE identifier_loop_alnum(
                 [self EXCEPT !.position = self.position + 1])

\* The mutant takes one byte and stops.
identifier_loop_oneByte(self) ==
    LET ch == current_byte(self)
    IN  IF ~ (is_ascii_alphabetic(ch) \/ ch = 95) THEN self
        ELSE [self EXCEPT !.position = self.position + 1]

\* The loop of Lexer::identifier: the Lexer when the loop is left.
RECURSIVE identifier_loop(_)
identifier_loop(self) ==
    LET ch == current_byte(self)
    IN  IF ~ (is_ascii_alphabetic(ch) \/ ch = 95) THEN self
        ELSE identifier_loop([self EXCEPT !.position = self.position + 1])

identifier(self, start) ==
    token(identifier_loop(self), "Identifier", start)

\* The mutant takes a 0 byte for the end of the input.
next_other_nulIsEnd(self) ==
    IF has_next(self) /\ current_byte(self) # 0
    THEN invalid(self, self.position, self.position + 1)
    ELSE Result(self, null(self))

\* The last arm of the match in Lexer::next.
next_other(self) ==
    IF has_next(self)
    THEN invalid(self, self.position, self.position + 1)
    ELSE Result(self, null(self))

\* The mutant merges two punctuation bytes into one token.
next_ponct_pair(self, ch) ==
    LET n  == IF is_ascii_punctuation(next_byte(self)) THEN 2 ELSE 1
        s1 == [self EXCEPT !.position = self.position + n]
    IN  Result(s1, Token_new("Ponct",
                             slice_string(s1, self.position, s1.position),
                             <<s1.row, s1.col>>))

\* The mutant tags the token as an operator.
next_ponct_asOp(self, ch) ==
    LET s1 == [self EXCEPT !.position = self.position + 1]
    IN  Result(s1, Token_new("Op", <<ch>>, <<s1.row, s1.col>>))

\* The punctuation arm of the match in Lexer::next; ch as char is U+00ch.
next_ponct(self, ch) ==
    LET s1 == [self EXCEPT !.position = self.position + 1]
    IN  Result(s1, Token_new("Ponct", <<ch>>, <<s1.row, s1.col>>))

next(self) ==
    LET ch == current_byte(self)
    IN  IF is_ascii_alphabetic(ch) \/ ch = 95
        THEN identifier(self, self.position)
        ELSE IF is_ascii_digit(ch) THEN number(self)
        ELSE IF is_ascii_punctuation(ch) THEN next_ponct(self, ch)
        ELSE IF is_ascii_whitespace(ch) THEN whitespace(self)
        ELSE next_other(self)

\* ------------------------------------------------ indexing of the input
\* The 0-based indices at which a method evaluates self.input[..], and the
\* <<start, stop>> ranges it passes to slice_string, following the same
\* control flow as the operators above.
current_byte_reads(self) == IF has_next(self) THEN {self.position} ELSE {}

\* The mutant indexes without the bounds test.
peek_reads_unchecked(self, offset) == {self.position + offset}

peek_reads(self, offset) ==
    LET index == self.position + offset
    IN  IF index < self.max_position THEN {index} ELSE {}

next_byte_reads(self) == peek_reads(self, 1)

RECURSIVE identifier_loop_reads(_)
identifier_loop_reads(self) ==
    LET ch == current_byte(self)
    IN  current_byte_reads(self) \cup
        (IF ~ (is_ascii_alphabetic(ch) \/ ch = 95) THEN {}
         ELSE identifier_loop_reads(
                  [self EXCEPT !.position = self.position + 1]))

\* The guard of the '.' arm is evaluated only on a '.'.
RECURSIVE number_loop_reads(_)
number_loop_reads(self) ==
    LET ch == current_byte(self)
        s1 == [self EXCEPT !.position = self.position + 1]
    IN  current_byte_reads(self) \cup
        (IF is_ascii_digit(ch) THEN number_loop_reads(s1)
         ELSE IF ch = 46
         THEN next_byte_reads(self) \cup
              (IF is_ascii_digit(next_byte(self))
               THEN number_loop_reads(s1) ELSE {})
         ELSE {})

RECURSIVE whitespace_loop_reads(_)
whitespace_loop_reads(self) ==
    IF ~ has_next(self) THEN {}
    ELSE LET ch == current_byte(self)
         IN  current_byte_reads(self) \cup
             (IF ch \in {32, 9, 13}
              THEN whitespace_loop_reads(advance_char(self))
              ELSE IF ch = 10
              THEN whitespace_loop_reads(
                       advance_char([self EXCEPT !.row = self.row + 1]))
              ELSE {})

next_reads(self) ==
    LET ch == current_byte(self)
    IN  current_byte_reads(self) \cup
        (IF is_ascii_alphabetic(ch) \/ ch = 95
         THEN identifier_loop_reads(self)
         ELSE IF is_ascii_digit(ch) THEN number_loop_reads(self)
         ELSE IF is_ascii_punctuation(ch) THEN {}
         ELSE IF is_ascii_whitespace(ch) THEN whitespace_loop_reads(self)
         ELSE {})

next_slices(self) ==
    LET ch == current_byte(self)
    IN  IF is_ascii_alphabetic(ch) \/ ch = 95
        THEN {<<self.position, identifier_loop(self).position>>}
        ELSE IF is_ascii_digit(ch)
        THEN {<<self.position, number_loop(self, "Int").self.position>>}
        ELSE IF is_ascii_punctuation(ch) THEN {}
        ELSE IF is_ascii_whitespace(ch)
        THEN {<<self.position, whitespace_loop(self).position>>}
        ELSE IF has_next(self) THEN {<<self.position, self.position + 1>>}
        ELSE {}

\* ------------------------------------------------------- state machine
Self ==
    [input |-> input, max_position |-> max_position,
     position |-> position, col |-> col, row |-> row]

Init ==
    /\ input \in Buffers
    /\ max_position = Lexer_new(input).max_position
    /\ position = Lexer_new(input).position
    /\ col = Lexer_new(input).col
    /\ row = Lexer_new(input).row
    /\ tok = NoToken
    /\ before = [position |-> 0, row |-> 1, col |-> 1, tok |-> NoToken]
    /\ tokens = <<>>
    /\ odd = FALSE
    /\ args = <<>>

\* One call of Lexer::next.
LexerNext ==
    LET r == next(Self)
    IN  /\ input' = r.self.input
        /\ max_position' = r.self.max_position
        /\ position' = r.self.position
        /\ col' = r.self.col
        /\ row' = r.self.row
        /\ tok' = r.tok
        /\ before' = [position |-> position, row |-> row, col |-> col,
                      tok |-> tok]
        /\ tokens' = IF /\ Len(tokens) < Len(input) + MaxExtra
                        /\ (tokens = <<>> \/ tokens[Len(tokens)].kind # "Null")
                     THEN Append(tokens, r.tok)
                     ELSE tokens
        /\ odd' = ~ odd
        /\ args' = args

Next == LexerNext

Spec == Init /\ [][Next]_vars

\* The caller keeps calling next(); termination is checked on the shorter
\* buffers.
LiveMaxLen == 2

LiveInit == Init /\ Len(input) <= LiveMaxLen

LiveSpec == LiveInit /\ [][Next]_vars /\ WF_vars(LexerNext)

\* The Lexer is built by Lexer::from_args.
ArgsInit ==
    /\ args \in ArgLists
    /\ input = from_args(args).input
    /\ max_position = from_args(args).max_position
    /\ position = from_args(args).position
    /\ col = from_args(args).col
    /\ row = from_args(args).row
    /\ tok = NoToken
    /\ before = [position |-> 0, row |-> 1, col |-> 1, tok |-> NoToken]
    /\ tokens = <<>>
    /\ odd = FALSE

ArgsSpec == ArgsInit /\ [][Next]_vars

\* ------------------------------------------------------------ vocabulary
Called == tok # NoToken

\* The last call was made with unconsumed input.
CalledInside == Called /\ before.position < Len(input)

\* The byte the cursor was on when the last call was made.
StartByte == input[before.position + 1]

CalledOn(b) == CalledInside /\ b = StartByte

\* tokens holds every Token returned so far.
LogComplete == Len(tokens) < Len(input) + MaxExtra

Returned(kinds) == \E i \in DOMAIN tokens : tokens[i].kind \in kinds

Kinds(ts) == [i \in DOMAIN ts |-> ts[i].kind]

RECURSIVE ConcatValues(_)
ConcatValues(ts) ==
    IF ts = <<>> THEN <<>>
    ELSE ts[1].value \o ConcatValues(SubSeq(ts, 2, Len(ts)))

\* input[a..b) of the source, as code points (all of them ASCII).
Bytes(a, b) == SubSeq(input, a + 1, b)

\* ------------------------------------------------------------------ C1
\* C1: on every buffer, repeated next() calls eventually return a Null
\* token.
C1_EventuallyNull == <>(tok.kind = "Null")

\* ------------------------------------------------------------------ C2
\* C2: a call made with position < length strictly increases position and
\* returns a token with a non-empty value; a call made at position = length
\* leaves position unchanged.
C2_EveryCallConsumes ==
    Called =>
        IF before.position < Len(input)
        THEN position > before.position /\ tok.value # <<>>
        ELSE position = before.position

\* ------------------------------------------------------------------ C3
\* C3: a call on a byte that is no letter, underscore, digit, punctuation or
\* whitespace returns Invalid with the decoding of that one byte as value and
\* moves position to the end of the buffer; every later call returns Null.
IsOtherByte(b) ==
    ~ ( \/ is_ascii_alphabetic(b) \/ b = 95 \/ is_ascii_digit(b)
        \/ is_ascii_punctuation(b) \/ b \in {32, 9, 10, 12, 13} )

C3_InvalidEndsScan ==
    /\ CalledInside /\ IsOtherByte(StartByte) =>
          /\ tok.kind = "Invalid"
          /\ tok.value = (IF StartByte < 128 THEN <<StartByte>>
                                             ELSE <<65533>>)
          /\ position = Len(input)
    /\ \A i, j \in DOMAIN tokens :
          i < j /\ tokens[i].kind = "Invalid" => tokens[j].kind = "Null"
    /\ Returned({"Invalid"}) /\ before.tok.kind \in {"Invalid", "Null"}
          => tok.kind = "Null"

\* An Invalid token was followed by Null although a letter ends the buffer.
C3_Witness ==
    /\ before.tok.kind = "Invalid"
    /\ tok.kind = "Null"
    /\ Len(input) >= 2
    /\ input[Len(input)] = 97
    /\ tokens[Len(tokens) - 1].value = <<65533>>

\* ------------------------------------------------------------------ C4
\* C4: a call that follows a Null or Invalid token returns Null with an empty
\* value, the loc of the previous Null, and leaves position (= length), row
\* and col unchanged.
C4_TerminalIsAbsorbing ==
    Called /\ before.tok.kind \in {"Null", "Invalid"} =>
        /\ tok.kind = "Null"
        /\ tok.value = <<>>
        /\ before.tok.kind = "Null" => tok.loc = before.tok.loc
        /\ position = before.position
        /\ position = Len(input)
        /\ row = before.row
        /\ col = before.col

\* Null was returned twice in a row on a non-empty buffer.
C4_Witness ==
    /\ before.tok.kind = "Null"
    /\ tok.kind = "Null"
    /\ Len(input) > 0

\* ------------------------------------------------------------------ C5
\* C5: as long as no Invalid or Null was returned, every token's value is
\* the slice of the input between the positions before and after its call,
\* and the values of all tokens returned so far concatenate to
\* input[0..position).
C5_ValuesTileThePrefix ==
    /\ Called /\ tok.kind \notin {"Invalid", "Null"} =>
          /\ before.position <= position
          /\ tok.value = Bytes(before.position, position)
    /\ LogComplete /\ ~ Returned({"Invalid", "Null"}) =>
          ConcatValues(tokens) = Bytes(0, position)

\* Three tokens of three kinds cover a whole buffer.
C5_Witness ==
    /\ LogComplete
    /\ ~ Returned({"Invalid", "Null"})
    /\ Len(tokens) >= 3
    /\ position = Len(input)
    /\ Cardinality({tokens[i].kind : i \in DOMAIN tokens}) >= 3

\* ------------------------------------------------------------------ C6
\* C6: as long as no Invalid was returned, col = 1 + position.
C6_ColCountsBytes ==
    LogComplete /\ ~ Returned({"Invalid"}) => col = 1 + position

\* ------------------------------------------------------------------ C7
\* C7: a call on a digit consumes the longest prefix of the form
\* digit (digit | '.' digit)*; the kind is Float when a '.' was consumed and
\* Int otherwise; a '.' with no digit after it is left for the next call, so
\* "3." yields Int "3", Ponct "." and "3.5" yields Float "3.5".
IsDigitByte(b) == b >= 48 /\ b <= 57

\* s is a word of digit (digit | '.' digit)*.
MatchesNumber(s) ==
    /\ s # <<>>
    /\ IsDigitByte(s[1])
    /\ \A i \in DOMAIN s :
          \/ IsDigitByte(s[i])
          \/ s[i] = 46 /\ i < Len(s) /\ IsDigitByte(s[i + 1])

C7_NumberIsLongestMatch ==
    /\ CalledInside /\ IsDigitByte(StartByte) =>
          LET rest == Bytes(before.position, Len(input))
              n    == position - before.position
              took == SubSeq(rest, 1, n)
          IN  /\ n \in 1..Len(rest)
              /\ MatchesNumber(took)
              /\ \A m \in (n + 1)..Len(rest) :
                    ~ MatchesNumber(SubSeq(rest, 1, m))
              /\ tok.value = took
              /\ tok.kind =
                    (IF \E i \in DOMAIN took : took[i] = 46
                     THEN "Float" ELSE "Int")
    /\ input = <<51, 46>> /\ tok.kind = "Null" =>
          /\ Kinds(tokens) = <<"Int", "Ponct", "Null">>
          /\ tokens[1].value = <<51>>
          /\ tokens[2].value = <<46>>
    /\ input = <<51, 46, 53>> /\ tok.kind = "Null" =>
          /\ Kinds(tokens) = <<"Float", "Null">>
          /\ tokens[1].value = <<51, 46, 53>>

\* A Float stopped in front of a '.' that no digit follows.
C7_Witness ==
    /\ tok.kind = "Float"
    /\ position > before.position
    /\ position < Len(input)
    /\ input[position + 1] = 46

\* ------------------------------------------------------------------ C8
\* C8: a call on a letter or underscore returns an Identifier whose value is
\* the maximal run of letters and underscores from the cursor; a digit ends
\* the run, so "abc123" yields Identifier "abc", Int "123".
IsIdentByte(b) == (b >= 65 /\ b <= 90) \/ (b >= 97 /\ b <= 122) \/ b = 95

C8_IdentifierIsMaximalRun ==
    /\ CalledInside /\ IsIdentByte(StartByte) =>
          /\ tok.kind = "Identifier"
          /\ position > before.position
          /\ position <= Len(input)
          /\ tok.value = Bytes(before.position, position)
          /\ \A i \in (before.position + 1)..position : IsIdentByte(input[i])
          /\ position < Len(input) => ~ IsIdentByte(input[position + 1])
    /\ input = <<97, 98, 99, 49, 50, 51>> /\ tok.kind = "Null" =>
          /\ Kinds(tokens) = <<"Identifier", "Int", "Null">>
          /\ tokens[1].value = <<97, 98, 99>>
          /\ tokens[2].value = <<49, 50, 51>>

\* An Identifier of letters and underscore stopped in front of a digit.
C8_Witness ==
    /\ tok.kind = "Identifier"
    /\ Len(tok.value) >= 2
    /\ position < Len(input)
    /\ IsDigitByte(input[position + 1])

\* ------------------------------------------------------------------ C9
\* C9: the buffer "1 + 2 * 3 asdsda\n ds" yields the kinds Int, Whitespace,
\* Ponct, Whitespace, Int, Whitespace, Ponct, Whitespace, Int, Whitespace,
\* Identifier, Whitespace, Identifier, Null; the newline and the space after
\* it are one Whitespace token and no token is Invalid.
ScenarioKinds ==
    <<"Int", "Whitespace", "Ponct", "Whitespace", "Int", "Whitespace",
      "Ponct", "Whitespace", "Int", "Whitespace", "Identifier", "Whitespace",
      "Identifier", "Null">>

C9_ScenarioKinds ==
    input = Scenario =>
        /\ tok.kind # "Invalid"
        /\ Len(tokens) <= Len(ScenarioKinds)
        /\ Kinds(tokens) = SubSeq(ScenarioKinds, 1, Len(tokens))
        /\ Len(tokens) >= 12 => tokens[12].value = <<10, 32>>
        /\ tok.kind = "Null" => Kinds(tokens) = ScenarioKinds

\* The scan of the scenario buffer reached its Null.
C9_Witness ==
    /\ input = Scenario
    /\ tok.kind = "Null"
    /\ Len(tokens) = 14

\* ------------------------------------------------------------------ C10
\* C10: next() returns Null exactly when called at position = length, with
\* an empty value and consuming nothing; the empty buffer yields Null at
\* loc (1,1) and a 0x00 byte in the buffer yields Invalid.
C10_NullIffAtEnd ==
    Called =>
        /\ tok.kind = "Null" <=> before.position = Len(input)
        /\ tok.kind = "Null" =>
              /\ tok.value = <<>>
              /\ position = before.position
              /\ row = before.row
              /\ col = before.col
        /\ input = <<>> => tok = [kind |-> "Null", value |-> <<>>,
                                  loc |-> <<1, 1>>]
        /\ CalledOn(0) => tok.kind = "Invalid"

\* A 0x00 byte in the middle of a buffer was returned as Invalid.
C10_Witness ==
    /\ CalledOn(0)
    /\ tok.kind = "Invalid"
    /\ tok.value = <<0>>
    /\ before.position > 0
    /\ before.position + 1 < Len(input)

\* ------------------------------------------------------------------ C12
\* C12: from_args builds the buffer as the arguments in order with exactly
\* one space byte between adjacent arguments and none before or after; no
\* arguments give the empty buffer; the Lexer starts at position 0, row 1,
\* col 1 like Lexer::new on that buffer.
RECURSIVE EncodedArg(_)
EncodedArg(str) ==
    IF str = <<>> THEN <<>>
    ELSE (IF str[1] = 233 THEN <<195, 169>> ELSE <<str[1]>>)
         \o EncodedArg(Tail(str))

RECURSIVE JoinedArgs(_)
JoinedArgs(as) ==
    IF as = <<>> THEN <<>>
    ELSE IF Len(as) = 1 THEN EncodedArg(as[1])
    ELSE EncodedArg(as[1]) \o <<32>> \o JoinedArgs(Tail(as))

RECURSIVE TotalArgBytes(_)
TotalArgBytes(as) ==
    IF as = <<>> THEN 0 ELSE Len(EncodedArg(as[1])) + TotalArgBytes(Tail(as))

C12_FromArgsJoinsWithSpaces ==
    /\ input = JoinedArgs(args)
    /\ Len(input) =
          TotalArgBytes(args) + (IF args = <<>> THEN 0 ELSE Len(args) - 1)
    /\ args = <<>> => input = <<>>
    /\ max_position = Len(input)
    /\ ~ Called => position = 0 /\ row = 1 /\ col = 1

\* A Lexer fresh from three arguments, the middle one empty and the last one
\* not ASCII.
C12_Witness ==
    /\ ~ Called
    /\ Len(args) = 3
    /\ args[1] = <<97>>
    /\ args[2] = <<>>
    /\ args[3] = <<233>>
    /\ input = <<97, 32, 32, 195, 169>>

\* ------------------------------------------------------------------ C13
\* C13: 0 <= position <= buffer length in every state, position is 0 before
\* the first call, and no call decreases position.
C13_PositionInRangeAndMonotone ==
    /\ position \in 0..Len(input)
    /\ ~ Called => position = 0
    /\ before.position <= position

\* An Invalid in the middle of a buffer moved position to the end.
C13_Witness ==
    /\ tok.kind = "Invalid"
    /\ before.position > 0
    /\ before.position + 1 < Len(input)
    /\ position = Len(input)

\* ------------------------------------------------------------------ C14
\* C14: the loc of every returned token is (row, col) as they are after the
\* call, not as they were at the token's first byte.
C14_LocIsTakenAfterConsuming ==
    Called => tok.loc = <<row, col>>

\* A Whitespace token with a newline: its loc differs from the (row, col) at
\* its first byte in both parts.
C14_Witness ==
    /\ tok.kind = "Whitespace"
    /\ tok.loc = <<row, col>>
    /\ row > before.row
    /\ col > before.col

\* ------------------------------------------------------------------ C15
\* C15: a call on an ASCII whitespace byte returns a Whitespace token whose
\* value is the maximal run of space, tab, CR and LF bytes from the cursor,
\* and row grows by the number of LF bytes in the run; so row is 1 plus the
\* number of LF bytes in the Whitespace tokens returned.
IsRunByte(b) == b \in {32, 9, 13, 10}

CountLF(s) == Cardinality({i \in DOMAIN s : s[i] = 10})

RECURSIVE CountLFInWhitespace(_)
CountLFInWhitespace(ts) ==
    IF ts = <<>> THEN 0
    ELSE (IF ts[1].kind = "Whitespace" THEN CountLF(ts[1].value) ELSE 0)
         + CountLFInWhitespace(Tail(ts))

C15_WhitespaceRunAndRows ==
    /\ CalledInside /\ StartByte \in {32, 9, 10, 12, 13} =>
          /\ tok.kind = "Whitespace"
          /\ position >= before.position
          /\ position <= Len(input)
          /\ tok.value = Bytes(before.position, position)
          /\ \A i \in (before.position + 1)..position : IsRunByte(input[i])
          /\ position < Len(input) => ~ IsRunByte(input[position + 1])
          /\ row = before.row + CountLF(Bytes(before.position, position))
    /\ LogComplete => row = 1 + CountLFInWhitespace(tokens)

\* A Whitespace run with CR and two LF, ended by a digit.
C15_Witness ==
    /\ tok.kind = "Whitespace"
    /\ tok.value = <<13, 10, 10>>
    /\ row = 3
    /\ position < Len(input)

\* ------------------------------------------------------------------ C16
\* C16: next() returns Ponct exactly when the byte at the cursor is ASCII
\* punctuation other than underscore; the call consumes one byte and the
\* value is that character, so "==" yields two Ponct tokens.
\* !"#$%&'()*+,-./  :;<=>?@  [\]^`  {|}~
PunctuationNotUnderscore ==
    {33, 34, 35, 36, 37, 38, 39, 40, 41, 42, 43, 44, 45, 46, 47,
     58, 59, 60, 61, 62, 63, 64, 91, 92, 93, 94, 96, 123, 124, 125, 126}

C16_PonctIsOnePunctuationByte ==
    /\ Called =>
          /\ tok.kind = "Ponct" <=>
                (CalledInside /\ StartByte \in PunctuationNotUnderscore)
          /\ tok.kind = "Ponct" =>
                /\ position = before.position + 1
                /\ tok.value = <<StartByte>>
    /\ input = <<61, 61>> /\ tok.kind = "Null" =>
          /\ Kinds(tokens) = <<"Ponct", "Ponct", "Null">>
          /\ tokens[1].value = <<61>>
          /\ tokens[2].value = <<61>>

\* The second '=' of "==" came back as a token of its own.
C16_Witness ==
    /\ input = <<61, 61>>
    /\ before.tok.kind = "Ponct"
    /\ tok.kind = "Ponct"
    /\ position = 2

\* ------------------------------------------------------------------ C17
\* C17: no token returned by next() has kind Op.
C17_OpIsNeverProduced ==
    /\ tok.kind # "Op"
    /\ \A i \in DOMAIN tokens : tokens[i].kind # "Op"

\* The operator characters '+' and '=' were returned, as Ponct.
C17_Witness ==
    /\ tok.kind = "Ponct"
    /\ tok.value \in {<<43>>, <<61>>}

\* ------------------------------------------------------------------ C18
\* C18: a call that returns Identifier, Int, Float, Ponct, Invalid or Null
\* leaves row and col unchanged; a call that returns Whitespace adds the
\* number of bytes it consumed to col.
C18_OnlyWhitespaceMovesRowCol ==
    Called =>
        IF tok.kind = "Whitespace"
        THEN /\ col = before.col + (position - before.position)
             /\ row >= before.row
        ELSE /\ tok.kind \in {"Identifier", "Int", "Float", "Ponct",
                              "Invalid", "Null"}
             /\ row = before.row
             /\ col = before.col

\* A Float of three bytes was returned and col did not move.
C18_Witness ==
    /\ tok.kind = "Float"
    /\ position >= before.position + 3
    /\ col = before.col
    /\ row = before.row

\* ------------------------------------------------------------------ C20
\* C20: an Identifier token is never directly followed by an Identifier
\* token, and an Int or Float token never by an Int or Float token.
C20_MaximalMunchAcrossCalls ==
    /\ before.tok.kind = "Identifier" => tok.kind # "Identifier"
    /\ before.tok.kind \in {"Int", "Float"} => tok.kind \notin {"Int", "Float"}
    /\ \A i \in 1..(Len(tokens) - 1) :
          /\ tokens[i].kind = "Identifier" =>
                tokens[i + 1].kind # "Identifier"
          /\ tokens[i].kind \in {"Int", "Float"} =>
                tokens[i + 1].kind \notin {"Int", "Float"}

\* An Identifier of two bytes was directly followed by an Int.
C20_Witness ==
    /\ before.tok.kind = "Identifier"
    /\ Len(before.tok.value) >= 2
    /\ tok.kind = "Int"

\* ------------------------------------------------------------------ C19
\* C19: no call reads the input at an index outside [0, length) or slices it
\* with start > stop or stop > length, also when a number or identifier run
\* reaches the last byte of the buffer.
\* The Lexer as it was before the last call.
BeforeSelf ==
    [input |-> input, max_position |-> max_position,
     position |-> before.position, col |-> before.col, row |-> before.row]

InBounds(self) ==
    /\ \A i \in next_reads(self) : i >= 0 /\ i < Len(input)
    /\ \A sl \in next_slices(self) :
          /\ sl[1] >= 0
          /\ sl[1] <= sl[2]
          /\ sl[2] <= Len(input)

C19_ReadsStayInBounds ==
    /\ InBounds(Self)
    /\ Called => InBounds(BeforeSelf)

\* A number ran up to a '.' that is the last byte: the lookahead met the end.
C19_Witness ==
    /\ tok.kind \in {"Int", "Float"}
    /\ position = Len(input) - 1
    /\ input[Len(input)] = 46
    /\ before.position \in next_reads(BeforeSelf)
    /\ position \in next_reads(BeforeSelf)

====
